---------------------------- MODULE Spec2Model ----------------------------
(***************************************************************************)
(* Learning-rule build and execution subsystem of nengo                    *)
(* (nengo/builder/learning_rules.py, nengo/learning_rules.py).             *)
(*                                                                         *)
(* A behaviour is: one learning rule is built into a model                 *)
(* (build_learning_rule and the builder of its rule type), optionally a    *)
(* connection is attached to the rule's input signal, a simulator is       *)
(* created from the model's operators, and the operators are run step     *)
(* after step in an order allowed by their sets/incs/reads/updates lists. *)
(*                                                                         *)
(* Real numbers are exact rationals <<numerator, denominator>>.            *)
(***************************************************************************)
EXTENDS Integers, Sequences, FiniteSets, TLC

\* ------------------------------------------------------------------ bounds
MaxN == 2          \* largest n_neurons / dimensions / size_in of an object
MaxSteps == 2      \* simulation steps explored

\* --------------------------------------------------------------- rationals
Abs(x) == IF x < 0 THEN -x ELSE x

RECURSIVE GCD(_, _)
GCD(a, b) == IF b = 0 THEN a ELSE GCD(b, a % b)

Rat(n, d) ==
    LET g == GCD(Abs(n), Abs(d))
        s == IF d < 0 THEN -1 ELSE 1
    IN  <<(s * n) \div g, (s * d) \div g>>

Zero == <<0, 1>>
One == <<1, 1>>
RInt(k) == <<k, 1>>
RAdd(a, b) == Rat(a[1] * b[2] + b[1] * a[2], a[2] * b[2])
RNeg(a) == <<-a[1], a[2]>>
RSub(a, b) == RAdd(a, RNeg(b))
RMul(a, b) == Rat(a[1] * b[1], a[2] * b[2])
RDiv(a, b) == Rat(a[1] * b[2], a[2] * b[1])
RIsNeg(a) == a[1] < 0
RIsPos(a) == a[1] > 0

\* ------------------------------------------------------ vectors, matrices
\* A vector is a sequence of rationals, a matrix a sequence of row vectors.
ZerosV(n) == [i \in 1..n |-> Zero]
FullV(n, x) == [i \in 1..n |-> x]
ZerosM(r, c) == [i \in 1..r |-> ZerosV(c)]
Shape(m) == <<Len(m), Len(m[1])>>
VAdd(u, v) == [i \in 1..Len(u) |-> RAdd(u[i], v[i])]
VScale(a, v) == [i \in 1..Len(v) |-> RMul(a, v[i])]
MAdd(m, k) == [i \in 1..Len(m) |-> VAdd(m[i], k[i])]
MScale(a, m) == [i \in 1..Len(m) |-> VScale(a, m[i])]
Outer(u, v) == [i \in 1..Len(u) |-> [j \in 1..Len(v) |-> RMul(u[i], v[j])]]

RECURSIVE SumTo(_, _)
SumTo(f, n) == IF n = 0 THEN Zero ELSE RAdd(SumTo(f, n - 1), f[n])

\* np.dot(matrix, vector)
Dot(m, v) ==
    [i \in 1..Len(m) |->
        SumTo([j \in 1..Len(v) |-> RMul(m[i][j], v[j])], Len(v))]

IsZeroM(m) == \A i \in 1..Len(m) : \A j \in 1..Len(m[i]) : m[i][j] = Zero

\* ------------------------------------------------------------ model values
NoneR == <<0, 0>>          \* Python None where a number is optional
NoSig == "-"               \* no signal in that slot of an operator
NoVal == <<>>              \* a signal that was never allocated
AFloat == "float"          \* a Python float where a signal is expected

\* model.dt, the step size the builders read (builder/learning_rules.py:419)
dt == Rat(1, 2)

\* Sizes of the objects: the scalar case and the largest
Sizes == {1, MaxN}
Kinds == {"PES", "BCM", "Oja", "Voja", "InhVSG", "VoltageRule"}
ObjTypes == {"Ensemble", "Neurons", "Node"}

\* Signals of the model: the registry entries the builders look up and the
\* signals they allocate.
AllSignals ==
    {"weights", "encoders", "delta", "one", "acts", "pre_filtered",
     "post_filtered", "theta", "error", "learning", "correction", "encoded",
     "lr_sig", "voltage", "local_error", "conn_out", "post_out", "drive",
     "delta2"}

\* Signals written by operators of other builders (neurons, synapses,
\* connections): their value in a step is an input of the step.
ExternalSignals ==
    {"acts", "pre_filtered", "post_filtered", "theta", "voltage", "conn_out",
     "post_out", "drive"}

\* -------------------------------------------------------------- operators
\* Every operator is a record with the same fields; a field an operator type
\* does not have keeps its value in OpBase.
OpBase ==
    [type |-> "", tag |-> "", sets |-> {}, incs |-> {}, reads |-> {},
     updates |-> {}, A |-> NoSig, X |-> NoSig, Y |-> NoSig,
     Aview |-> "base", Xview |-> "base", value |-> Zero, clipType |-> 0,
     decay_factor |-> One, pre_filtered |-> NoSig, post_filtered |-> NoSig,
     theta |-> NoneR, thetaSig |-> NoSig, delta |-> NoSig, weights |-> NoSig,
     learning_signal |-> NoSig, learning_rate |-> Zero, beta |-> Zero,
     pre_decoded |-> NoSig, scaled_encoders |-> NoSig, scale |-> NoVal]

\* Mutant: the kernel declares delta as a signal it sets.
SimBCMSetsDelta(pre_filtered, post_filtered, theta, thetaSig, delta, learning_rate) ==
    [OpBase EXCEPT
        !.type = "SimBCM",
        !.pre_filtered = pre_filtered, !.post_filtered = post_filtered,
        !.theta = theta, !.thetaSig = thetaSig, !.delta = delta,
        !.learning_rate = learning_rate,
        !.reads = IF theta # NoneR
                  THEN {pre_filtered, post_filtered}
                  ELSE {pre_filtered, post_filtered, thetaSig},
        !.sets = {delta}]

\* SimBCM.__init__: theta is a float (fixed threshold) or a signal
SimBCM(pre_filtered, post_filtered, theta, thetaSig, delta, learning_rate) ==
    [OpBase EXCEPT
        !.type = "SimBCM",
        !.pre_filtered = pre_filtered, !.post_filtered = post_filtered,
        !.theta = theta, !.thetaSig = thetaSig, !.delta = delta,
        !.learning_rate = learning_rate,
        !.reads = IF theta # NoneR
                  THEN {pre_filtered, post_filtered}
                  ELSE {pre_filtered, post_filtered, thetaSig},
        !.updates = {delta}]

SimInhVSG(pre_filtered, post_filtered, theta, delta, learning_signal, learning_rate) ==
    [OpBase EXCEPT
        !.type = "SimInhVSG",
        !.pre_filtered = pre_filtered, !.post_filtered = post_filtered,
        !.theta = theta, !.delta = delta,
        !.learning_signal = learning_signal, !.learning_rate = learning_rate,
        !.reads = {pre_filtered, post_filtered, learning_signal},
        !.updates = {delta}]

\* Mutant: the kernel declares the weights, not delta, as what it updates.
SimOjaUpdatesWeights(pre_filtered, post_filtered, weights, delta, learning_rate, beta) ==
    [OpBase EXCEPT
        !.type = "SimOja",
        !.pre_filtered = pre_filtered, !.post_filtered = post_filtered,
        !.weights = weights, !.delta = delta,
        !.learning_rate = learning_rate, !.beta = beta,
        !.reads = {pre_filtered, post_filtered, weights},
        !.updates = {weights}]

SimOja(pre_filtered, post_filtered, weights, delta, learning_rate, beta) ==
    [OpBase EXCEPT
        !.type = "SimOja",
        !.pre_filtered = pre_filtered, !.post_filtered = post_filtered,
        !.weights = weights, !.delta = delta,
        !.learning_rate = learning_rate, !.beta = beta,
        !.reads = {pre_filtered, post_filtered, weights},
        !.updates = {delta}]

SimVoja(pre_decoded, post_filtered, scaled_encoders, delta, scale, learning_signal, learning_rate) ==
    [OpBase EXCEPT
        !.type = "SimVoja",
        !.pre_decoded = pre_decoded, !.post_filtered = post_filtered,
        !.scaled_encoders = scaled_encoders, !.delta = delta,
        !.scale = scale, !.learning_signal = learning_signal,
        !.learning_rate = learning_rate,
        !.reads = {pre_decoded, post_filtered, scaled_encoders,
                   learning_signal},
        !.updates = {delta}]

\* Operators of nengo.builder.operator, as the builders construct them.
Reset(dst, value) ==
    [OpBase EXCEPT !.type = "Reset", !.Y = dst, !.value = value,
                   !.sets = {dst}]

PreserveValue(dst) ==
    [OpBase EXCEPT !.type = "PreserveValue", !.Y = dst, !.sets = {dst}]

DotInc(A, X, Y, tag) ==
    [OpBase EXCEPT !.type = "DotInc", !.A = A, !.X = X, !.Y = Y,
                   !.tag = tag, !.incs = {Y}, !.reads = {A, X}]

ElementwiseInc(A, Aview, X, Xview, Y, tag, clipType, decay_factor) ==
    [OpBase EXCEPT !.type = "ElementwiseInc", !.A = A, !.X = X, !.Y = Y,
                   !.Aview = Aview, !.Xview = Xview, !.tag = tag,
                   !.clipType = clipType, !.decay_factor = decay_factor,
                   !.incs = {Y}, !.reads = {A, X}]

\* The operator an incoming connection adds for its post object, here the
\* learning rule: it increments model.sig[rule]['in'].
ConnInc(dst) ==
    [OpBase EXCEPT !.type = "ConnInc", !.X = "drive", !.Y = dst,
                   !.incs = {dst}, !.reads = {"drive"}]

Writes(op) == op.sets \cup op.incs \cup op.updates

\* ---------------------------------------------------- model under build
\* model.operators, model.sig[rule] (pairs <<name, signal>>), the signals'
\* arrays, the synapses built, and how the build ended ("ok" or the
\* exception raised).
EmptyModel ==
    [status |-> "ok", ops |-> <<>>, sig |-> {},
     val |-> [s \in AllSignals |-> NoVal], synapses |-> {}]

add_op(M, op) == [M EXCEPT !.ops = Append(M.ops, op)]
Publish(M, name, signal) == [M EXCEPT !.sig = M.sig \cup {<<name, signal>>}]
Alloc(M, signal, value) == [M EXCEPT !.val[signal] = value]
Raise(M, exc) == [M EXCEPT !.status = exc]

\* model.build(Lowpass(tau), input): the filtered signal, n entries long
Lowpass(M, tau, input, output, n) ==
    [Alloc(M, output, ZerosV(n)) EXCEPT
        !.synapses = @ \cup {[tau |-> tau, input |-> input,
                              output |-> output]}]

\* Entries of model.sig the other builders register for an object.
HasSignal(objType, name) ==
    CASE name = "out" -> TRUE
      [] name = "encoders" -> objType = "Ensemble"
      [] name = "voltage" -> objType \in {"Ensemble", "Neurons"}
      [] OTHER -> FALSE

\* get_pre_ens / get_post_ens: the type of the object returned, or
\* "AttributeError" when the object has no .ensemble
get_pre_ens(conn) ==
    IF conn.pre_obj \in {"Ensemble", "Neurons"} THEN "Ensemble"
    ELSE "AttributeError"

get_post_ens(conn) ==
    IF conn.post_obj \in {"Ensemble", "Node"} THEN conn.post_obj
    ELSE "Ensemble"

\* Shape of the delta build_learning_rule allocates
DeltaShape(rule) ==
    IF rule.modifies = "encoders"
    THEN <<rule.post_n, rule.post_dims>>
    ELSE IF ~rule.is_decoded
         THEN <<rule.post_n, rule.pre_n>>
         ELSE <<rule.size_in, rule.pre_n>>

TargetSignal(rule) ==
    IF rule.modifies = "encoders" THEN "encoders" ELSE "weights"

TargetShape(rule) ==
    IF rule.modifies = "encoders"
    THEN <<rule.post_n, rule.post_dims>>
    ELSE rule.wshape

\* The exception build_learning_rule raises before it adds an operator,
\* or "ok". For 'encoders' on a connection that is not decoded, line 199
\* constructs a ValueError and does not raise it: the build goes on.
SetUpDelta(rule) ==
    IF rule.modifies = "encoders"
    THEN IF get_post_ens(rule) = "Node" THEN "KeyError" ELSE "ok"
    ELSE IF rule.modifies \in {"decoders", "weights"}
         THEN IF get_pre_ens(rule) = "AttributeError" THEN "AttributeError"
              ELSE IF ~rule.is_decoded /\ get_post_ens(rule) = "Node"
                   THEN "AttributeError"
                   ELSE "ok"
         ELSE "ValueError"

\* Mutant: the assert of line 220 is missing.
ShapesAgreeUnchecked(rule) == TRUE

ShapesAgree(rule) == DeltaShape(rule) = TargetShape(rule)

\* Mutant: the rule's clipType is not handed to the operator.
DeltaAccumulationUnclipped(rule) ==
    ElementwiseInc("one", "base", "delta", "base", TargetSignal(rule),
                   IF rule.modifies = "encoders" THEN "encoders += delta"
                   ELSE "weights += delta",
                   0,
                   RSub(One, rule.decay_rate_x_dt))

\* The tag, clipType and decay_factor of the Delta Accumulation Operator
DeltaAccumulation(rule) ==
    ElementwiseInc("one", "base", "delta", "base", TargetSignal(rule),
                   IF rule.modifies = "encoders" THEN "encoders += delta"
                   ELSE "weights += delta",
                   rule.clipType,
                   RSub(One, rule.decay_rate_x_dt))

\* build_learning_rule up to the dispatch to the rule type's builder
build_learning_rule_head(rule) ==
    IF SetUpDelta(rule) # "ok" THEN Raise(EmptyModel, SetUpDelta(rule))
    ELSE IF ~ShapesAgree(rule) THEN Raise(EmptyModel, "AssertionError")
    ELSE IF ~rule.has_clipType THEN Raise(EmptyModel, "AttributeError")
    ELSE LET d == DeltaShape(rule)
             t == TargetShape(rule)
             M0 == Alloc(Alloc(Alloc(EmptyModel,
                        "delta", ZerosM(d[1], d[2])),
                        TargetSignal(rule), ZerosM(t[1], t[2])),
                        "one", One)
         IN  Publish(add_op(M0, DeltaAccumulation(rule)), "delta", "delta")

\* Mutant: the decay of a standard leaky integrator, 1 - dt/tau.
IntegralDecayStandard(integral_tau) == RSub(One, RDiv(dt, integral_tau))

\* The coefficient PES and VoltageRule give their delta increment when
\* integral_tau is set
IntegralDecay(integral_tau) ==
    RMul(RSub(One, RDiv(dt, integral_tau)), RDiv(dt, integral_tau))

\* Mutant: delta is preserved also when integral_tau is None.
IncDeltaNeverReset(M, integral_tau, local_error, tag) ==
    add_op(add_op(M, PreserveValue("delta")),
           ElementwiseInc(local_error, "column", "acts", "row", "delta", tag,
                          0, IF integral_tau = NoneR THEN One
                             ELSE RMul(RSub(One, RDiv(dt, integral_tau)),
                                       RDiv(dt, integral_tau))))

\* Lines 439-454 (PES) and 376-391 (VoltageRule): reset or preserve delta,
\* then delta += outer(local_error, acts)
IncDelta(M, integral_tau, local_error, tag) ==
    IF integral_tau = NoneR
    THEN add_op(add_op(M, Reset("delta", Zero)),
                ElementwiseInc(local_error, "column", "acts", "row", "delta",
                               tag, 0, One))
    ELSE add_op(add_op(M, PreserveValue("delta")),
                ElementwiseInc(local_error, "column", "acts", "row", "delta",
                               tag, 0, IntegralDecay(integral_tau)))

\* Mutant: the correction is scaled by the number of post neurons.
PreNeuronsFromPost(rule) == rule.post_n

\* n_neurons of build_pes and build_voltagerule: pre_obj.n_neurons of an
\* Ensemble, pre_obj.size_in otherwise
PreNeurons(rule) == rule.pre_n

LrSig(rule) == RDiv(RMul(RNeg(rule.learning_rate), dt), RInt(PreNeurons(rule)))

\* Mutant: the else branch is taken by connections that are not decoded.
PESUnsuitableNotDecoded(rule) ==
    ~rule.is_decoded /\ rule.pre_obj \notin {"Ensemble", "Neurons"}

\* Lines 423-437: the else branch, reached by a decoded connection whose
\* pre object is neither an Ensemble nor a Neurons
PESUnsuitable(rule) ==
    rule.is_decoded /\ rule.pre_obj \notin {"Ensemble", "Neurons"}

build_pes(M, rule) ==
    LET M1 == Publish(add_op(Alloc(M, "error", ZerosV(rule.size_in)),
                             Reset("error", Zero)), "in", "error")
        M2 == Lowpass(M1, rule.pre_tau, "pre_out", "acts", rule.pre_n)
        M3 == add_op(Alloc(M2, "correction", ZerosV(rule.size_in)),
                     Reset("correction", Zero))
        M4 == add_op(Alloc(M3, "lr_sig", LrSig(rule)),
                     DotInc("lr_sig", "error", "correction", "PES:correct"))
        M5 == IF ~rule.is_decoded
              THEN add_op(add_op(
                       Alloc(Alloc(M4, "encoders",
                                   ZerosM(rule.post_n, rule.post_dims)),
                             "encoded", ZerosV(rule.wshape[1])),
                       Reset("encoded", Zero)),
                       DotInc("encoders", "correction", "encoded",
                              "PES:encode"))
              ELSE M4
        local_error == IF ~rule.is_decoded THEN "encoded" ELSE "correction"
        M6 == IncDelta(M5, rule.integral_tau, local_error, "PES:Inc Delta")
    IN  IF ~rule.is_decoded /\ ~HasSignal(get_post_ens(rule), "encoders")
        THEN Raise(M4, "KeyError")
        ELSE IF PESUnsuitable(rule) THEN Raise(M4, "ValueError")
        ELSE Publish(Publish(Publish(M6, "error", "error"),
                             "correction", "correction"),
                     "activities", "acts")

\* Mutant: only an Ensemble is taken as an endpoint.
NeuronsOrEnsembleOnlyEnsemble(obj) == obj = "Ensemble"

\* isinstance(obj, (Neurons, Ensemble)), lines 353 and 356
NeuronsOrEnsemble(obj) == obj \in {"Neurons", "Ensemble"}

build_voltagerule(M, rule) ==
    IF ~NeuronsOrEnsemble(rule.pre_obj) THEN Raise(M, "ValueError")
    ELSE IF ~NeuronsOrEnsemble(rule.post_obj) THEN Raise(M, "ValueError")
    ELSE
    LET M1 == Lowpass(Alloc(M, "voltage", ZerosV(rule.post_n)),
                      rule.pre_tau, "pre_out", "acts", rule.pre_n)
        M2 == add_op(Alloc(M1, "local_error", ZerosV(rule.post_n)),
                     Reset("local_error", Zero))
        M3 == add_op(Alloc(M2, "lr_sig", LrSig(rule)),
                     DotInc("lr_sig", "voltage", "local_error",
                            "VoltageRule:correct"))
        M4 == IncDelta(M3, rule.integral_tau, "local_error",
                       "VoltageRule:Inc Delta")
    IN  Publish(Publish(M4, "correction", "local_error"), "activities", "acts")

\* get_post_ens(conn).neurons: a Node has no neurons
PostNeuronsOk(rule) == get_post_ens(rule) # "Node"

\* Mutant: the post activities are filtered with pre_tau.
FilteredActivitiesOneTau(M, rule) ==
    Lowpass(Lowpass(M, rule.pre_tau, "pre_out", "pre_filtered", rule.pre_n),
            rule.pre_tau, "post_out", "post_filtered", rule.post_n)

\* pre_filtered and post_filtered of build_bcm, build_inhvsg and build_oja:
\* the pre and post neurons' 'out' through Lowpass(pre_tau) and
\* Lowpass(post_tau)
FilteredActivities(M, rule) ==
    Lowpass(Lowpass(M, rule.pre_tau, "pre_out", "pre_filtered", rule.pre_n),
            rule.post_tau, "post_out", "post_filtered", rule.post_n)

build_bcm(M, rule) ==
    IF ~PostNeuronsOk(rule) THEN Raise(M, "AttributeError")
    ELSE
    LET M1 == FilteredActivities(M, rule)
        M2 == IF rule.theta = NoneR
              THEN Lowpass(M1, rule.theta_tau, "post_filtered", "theta",
                           rule.post_n)
              ELSE M1
        M3 == add_op(M2, SimBCM("pre_filtered", "post_filtered", rule.theta,
                                IF rule.theta = NoneR THEN "theta" ELSE NoSig,
                                "delta", rule.learning_rate))
    IN  Publish(Publish(Publish(M3, "theta",
                                IF rule.theta = NoneR THEN "theta"
                                ELSE AFloat),
                        "pre_filtered", "pre_filtered"),
                "post_filtered", "post_filtered")

\* Mutant: the learning signal is reset to 0.0, as an error signal is.
LearningSignalResetToZero(M, rule) ==
    IF rule.size_in # 1
    THEN Raise(Alloc(M, "learning", ZerosV(rule.size_in)), "AssertionError")
    ELSE Publish(add_op(Alloc(M, "learning", ZerosV(rule.size_in)),
                        Reset("learning", Zero)), "in", "learning")

\* The learning signal of build_inhvsg and build_voja, reset to 1.0 in
\* every step
LearningSignal(M, rule) ==
    IF rule.size_in # 1
    THEN Raise(Alloc(M, "learning", ZerosV(rule.size_in)), "AssertionError")
    ELSE Publish(add_op(Alloc(M, "learning", ZerosV(rule.size_in)),
                        Reset("learning", One)), "in", "learning")

build_inhvsg(M, rule) ==
    LET M1 == LearningSignal(M, rule)
    IN  IF M1.status # "ok" THEN M1
        ELSE IF ~PostNeuronsOk(rule) THEN Raise(M1, "AttributeError")
        ELSE
        LET M2 == FilteredActivities(M1, rule)
            M3 == add_op(M2, SimInhVSG("pre_filtered", "post_filtered",
                                       rule.theta, "delta", "learning",
                                       rule.learning_rate))
        IN  Publish(Publish(M3, "pre_filtered", "pre_filtered"),
                    "post_filtered", "post_filtered")

\* Mutant: post_filtered is not exposed for probes.
build_oja_PostFilteredHidden(M, rule) ==
    IF ~PostNeuronsOk(rule) THEN Raise(M, "AttributeError")
    ELSE
    LET M1 == FilteredActivities(M, rule)
        M2 == add_op(M1, SimOja("pre_filtered", "post_filtered", "weights",
                                "delta", rule.learning_rate, rule.beta))
    IN  Publish(M2, "pre_filtered", "pre_filtered")

build_oja(M, rule) ==
    IF ~PostNeuronsOk(rule) THEN Raise(M, "AttributeError")
    ELSE
    LET M1 == FilteredActivities(M, rule)
        M2 == add_op(M1, SimOja("pre_filtered", "post_filtered", "weights",
                                "delta", rule.learning_rate, rule.beta))
    IN  Publish(Publish(M2, "pre_filtered", "pre_filtered"),
                "post_filtered", "post_filtered")

\* model.params[post].gain / post.radius, one entry per post neuron
EncoderScale(rule) == [i \in 1..rule.post_n |-> RInt(i)]

build_voja(M, rule) ==
    LET post_filtered == IF rule.post_tau # NoneR THEN "post_filtered"
                         ELSE "post_out"
        M1 == LearningSignal(
                  IF rule.post_tau # NoneR
                  THEN Lowpass(M, rule.post_tau, "post_out", "post_filtered",
                               rule.post_n)
                  ELSE Alloc(M, "post_out", ZerosV(rule.post_n)),
                  rule)
    IN  IF M1.status # "ok" THEN M1
        ELSE IF ~HasSignal(rule.post_obj, "encoders") THEN Raise(M1, "KeyError")
        ELSE
        LET M2 == Alloc(M1, "conn_out", ZerosV(rule.post_dims))
            M3 == add_op(M2, SimVoja("conn_out", post_filtered, "encoders",
                                     "delta", EncoderScale(rule), "learning",
                                     rule.learning_rate))
        IN  Publish(Publish(M3, "scaled_encoders", "encoders"),
                    "post_filtered", post_filtered)

\* model.build(rule.learning_rule_type, rule): the builder registered for
\* the class of the descriptor
build_type(M, rule) ==
    CASE rule.kind = "PES" -> build_pes(M, rule)
      [] rule.kind = "BCM" -> build_bcm(M, rule)
      [] rule.kind = "Oja" -> build_oja(M, rule)
      [] rule.kind = "Voja" -> build_voja(M, rule)
      [] rule.kind = "InhVSG" -> build_inhvsg(M, rule)
      [] rule.kind = "VoltageRule" -> build_voltagerule(M, rule)

\* build_learning_rule: set up delta, add the Delta Accumulation Operator,
\* then model.build(rule.learning_rule_type, rule)
build_learning_rule(rule) ==
    LET M == build_learning_rule_head(rule)
    IN  IF M.status # "ok" THEN M ELSE build_type(M, rule)

\* ------------------------------------------------------------ step kernels
IsMatrixSignal(s) == s \in {"delta", "weights", "encoders"}

\* numpy broadcasting of a matrix P into an array of the given shape
CanBroadcast(P, shape) ==
    /\ Len(P) \in {1, shape[1]}
    /\ Len(P[1]) \in {1, shape[2]}

BroadcastTo(P, shape) ==
    [i \in 1..shape[1] |->
        [j \in 1..shape[2] |->
            P[IF Len(P) = 1 THEN 1 ELSE i][IF Len(P[1]) = 1 THEN 1 ELSE j]]]

\* Reset: dst[...] = value
StepReset(op, v) ==
    [v EXCEPT ![op.Y] =
        IF IsMatrixSignal(op.Y)
        THEN [i \in 1..Len(v[op.Y]) |-> FullV(Len(v[op.Y][1]), op.value)]
        ELSE FullV(Len(v[op.Y]), op.value)]

\* DotInc: Y[...] += dot(A, X); A is the scalar lr_sig or a matrix
DotProduct(op, v) ==
    IF op.A = "lr_sig" THEN VScale(v[op.A], v[op.X]) ELSE Dot(v[op.A], v[op.X])

DotShapesOk(op, v) ==
    IF op.A = "lr_sig" THEN Len(v[op.X]) = Len(v[op.Y])
    ELSE Len(v[op.A][1]) = Len(v[op.X]) /\ Len(v[op.A]) = Len(v[op.Y])

StepDotInc(op, v) == [v EXCEPT ![op.Y] = VAdd(v[op.Y], DotProduct(op, v))]

\* Clipping of the Delta Accumulation Operator: clipType 1 ('clip<0') zeroes
\* the negative entries, 2 ('clip>0') the positive ones, 0 none
ClipEntry(x, clipType) ==
    IF clipType = 1 /\ RIsNeg(x) THEN Zero
    ELSE IF clipType = 2 /\ RIsPos(x) THEN Zero
    ELSE x

Clip(m, clipType) ==
    [i \in 1..Len(m) |-> [j \in 1..Len(m[i]) |-> ClipEntry(m[i][j], clipType)]]

\* A * X of ElementwiseInc: a column times a row, or a scalar times a matrix
ElementwiseProduct(op, v) ==
    IF op.Aview = "column" /\ op.Xview = "row" THEN Outer(v[op.A], v[op.X])
    ELSE MScale(v[op.A], v[op.X])

\* ElementwiseInc: Y = Y*decay_factor + A*X, then clip
StepElementwiseInc(op, v) ==
    [v EXCEPT ![op.Y] =
        Clip(MAdd(MScale(op.decay_factor, v[op.Y]),
                  BroadcastTo(ElementwiseProduct(op, v), Shape(v[op.Y]))),
             op.clipType)]

\* ConnInc: rule['in'] += the connection's output, the same in every
\* component
StepConnInc(op, v) ==
    [v EXCEPT ![op.Y] = VAdd(v[op.Y], FullV(Len(v[op.Y]), v[op.X][1]))]

\* Mutant: post_filtered + theta in place of post_filtered - theta.
KernelBCMSignSlip(op, v, stepsize) ==
    LET alpha == RMul(op.learning_rate, stepsize)
        post == v[op.post_filtered]
        theta == IF op.theta # NoneR THEN FullV(Len(post), op.theta)
                 ELSE v[op.thetaSig]
    IN  Outer([i \in 1..Len(post) |->
                  RMul(RMul(alpha, post[i]), RAdd(post[i], theta[i]))],
              v[op.pre_filtered])

\* step_simbcm
KernelBCM(op, v, stepsize) ==
    LET alpha == RMul(op.learning_rate, stepsize)
        post == v[op.post_filtered]
        theta == IF op.theta # NoneR THEN FullV(Len(post), op.theta)
                 ELSE v[op.thetaSig]
    IN  Outer([i \in 1..Len(post) |->
                  RMul(RMul(alpha, post[i]), RSub(post[i], theta[i]))],
              v[op.pre_filtered])

\* step_siminhvsg
KernelInhVSG(op, v, stepsize) ==
    LET alpha == RMul(op.learning_rate, stepsize)
        post == v[op.post_filtered]
        ls == v[op.learning_signal][1]
    IN  MScale(RNeg(One),
               Outer([i \in 1..Len(post) |->
                         RMul(RMul(alpha, ls), RSub(post[i], op.theta))],
                     v[op.pre_filtered]))

\* Mutant: the forgetting term is not multiplied by the weights.
OjaForgettingWithoutWeights(op, v, stepsize) ==
    LET alpha == RMul(op.learning_rate, stepsize)
        post == v[op.post_filtered]
        w == v[op.weights]
    IN  [i \in 1..Len(w) |->
            FullV(Len(w[i]),
                  RMul(RNeg(op.beta), RMul(RMul(alpha, post[i]), post[i])))]

\* Mutant: the forgetting term takes the square of alpha * post_filtered.
OjaForgettingSquaredRate(op, v, stepsize) ==
    LET alpha == RMul(op.learning_rate, stepsize)
        post == v[op.post_filtered]
        w == v[op.weights]
    IN  [i \in 1..Len(w) |->
            VScale(RMul(RNeg(op.beta),
                        RMul(RMul(alpha, post[i]), RMul(alpha, post[i]))),
                   w[i])]

\* step_simoja: the forgetting term, then the Hebbian update
OjaForgetting(op, v, stepsize) ==
    LET alpha == RMul(op.learning_rate, stepsize)
        post == v[op.post_filtered]
        w == v[op.weights]
    IN  [i \in 1..Len(w) |->
            VScale(RMul(RNeg(op.beta), RMul(RMul(alpha, post[i]), post[i])),
                   w[i])]

OjaHebbian(op, v, stepsize) ==
    Outer(VScale(RMul(op.learning_rate, stepsize), v[op.post_filtered]),
          v[op.pre_filtered])

KernelOja(op, v, stepsize) ==
    MAdd(OjaForgetting(op, v, stepsize), OjaHebbian(op, v, stepsize))

\* Mutant: the learning signal does not gate the update.
KernelVojaUngated(op, v, stepsize) ==
    LET alpha == RMul(op.learning_rate, stepsize)
        post == v[op.post_filtered]
        pre == v[op.pre_decoded]
        enc == v[op.scaled_encoders]
    IN  [i \in 1..Len(post) |->
            [j \in 1..Len(pre) |->
                RMul(alpha,
                     RSub(RMul(op.scale[i], RMul(post[i], pre[j])),
                          RMul(post[i], enc[i][j])))]]

\* Mutant: the rate is not multiplied by the step size.
KernelVojaWithoutDt(op, v, stepsize) ==
    LET post == v[op.post_filtered]
        pre == v[op.pre_decoded]
        enc == v[op.scaled_encoders]
        ls == v[op.learning_signal][1]
    IN  [i \in 1..Len(post) |->
            [j \in 1..Len(pre) |->
                RMul(RMul(op.learning_rate, ls),
                     RSub(RMul(op.scale[i], RMul(post[i], pre[j])),
                          RMul(post[i], enc[i][j])))]]

\* step_simvoja
KernelVoja(op, v, stepsize) ==
    LET alpha == RMul(op.learning_rate, stepsize)
        post == v[op.post_filtered]
        pre == v[op.pre_decoded]
        enc == v[op.scaled_encoders]
        ls == v[op.learning_signal][1]
    IN  [i \in 1..Len(post) |->
            [j \in 1..Len(pre) |->
                RMul(RMul(alpha, ls),
                     RSub(RMul(op.scale[i], RMul(post[i], pre[j])),
                          RMul(post[i], enc[i][j])))]]

Kernel(op, v) ==
    CASE op.type = "SimBCM" -> KernelBCM(op, v, dt)
      [] op.type = "SimInhVSG" -> KernelInhVSG(op, v, dt)
      [] op.type = "SimOja" -> KernelOja(op, v, dt)
      [] op.type = "SimVoja" -> KernelVoja(op, v, dt)

\* delta[...] = kernel result
StepKernel(op, v) ==
    [v EXCEPT ![op.delta] = BroadcastTo(Kernel(op, v), Shape(v[op.delta]))]

\* The array an operator writes has a shape its result fits
ShapesFit(op, v) ==
    CASE op.type = "ElementwiseInc" ->
            CanBroadcast(ElementwiseProduct(op, v), Shape(v[op.Y]))
      [] op.type \in {"SimBCM", "SimInhVSG", "SimOja", "SimVoja"} ->
            CanBroadcast(Kernel(op, v), Shape(v[op.delta]))
      [] op.type = "DotInc" -> DotShapesOk(op, v)
      [] OTHER -> TRUE

\* ------------------------------------------------------ the rules to build
\* A rule: the LearningRule (kind, modifies and hyperparameters of its
\* learning_rule_type, size_in) with the connection it belongs to.
LearningRates == {One}
DecayRates == {Zero, Rat(1, 2)}
ClipTypes == {0, 1, 2}
IntegralTaus == {NoneR, One}
Betas == {One, RInt(2)}
PreTau == RInt(2)
ThetaTau == RInt(3)

Modifies(kind) ==
    CASE kind \in {"PES", "VoltageRule"} -> "decoders"
      [] kind \in {"BCM", "Oja", "InhVSG"} -> "weights"
      [] kind = "Voja" -> "encoders"

SizeIns(kind) ==
    CASE kind \in {"PES", "VoltageRule"} -> Sizes
      [] kind \in {"BCM", "Oja"} -> {0}
      [] kind \in {"Voja", "InhVSG"} -> {1, 2}

Thetas(kind) ==
    CASE kind = "BCM" -> {NoneR, One}
      [] kind = "InhVSG" -> {One}
      [] OTHER -> {NoneR}

ClipAttrs == {<<FALSE, 0>>} \cup ({TRUE} \X ClipTypes)

IntegralTausOf(k) ==
    IF k \in {"PES", "VoltageRule"} THEN IntegralTaus ELSE {NoneR}

BetasOf(k) == IF k = "Oja" THEN Betas ELSE {Zero}

PostTausOf(k) ==
    CASE k = "Voja" -> {NoneR, One}
      [] k \in {"BCM", "Oja", "InhVSG"} -> {One}
      [] OTHER -> {NoneR}

WeightShapesOf(k) ==
    IF Modifies(k) = "encoders" THEN {<<1, 1>>} ELSE Sizes \X Sizes

NoRule == [kind |-> "none"]

\* rule.learning_rule_type: what the simulation keeps of a rule
LearningRuleType(r) ==
    [kind |-> r.kind, modifies |-> r.modifies,
     learning_rate |-> r.learning_rate, clipType |-> r.clipType,
     decay_rate_x_dt |-> r.decay_rate_x_dt, integral_tau |-> r.integral_tau,
     theta |-> r.theta, beta |-> r.beta, post_tau |-> r.post_tau]

\* ----------------------------------------------------------- the scheduler
\* Operator a runs before operator b in a step: for every signal, sets come
\* before increments, increments before reads, reads before updates.
Before(a, b) ==
    \/ a.sets \cap (b.incs \cup b.reads \cup b.updates) # {}
    \/ a.incs \cap (b.reads \cup b.updates) # {}
    \/ a.reads \cap b.updates # {}

Ready(o, ran) ==
    {i \in DOMAIN o \ ran :
        \A j \in DOMAIN o \ ran : j = i \/ ~Before(o[j], o[i])}

Min(S) == CHOOSE x \in S : \A y \in S : x <= y

\* The order the simulator runs the operators in: a topological order of
\* Before
RECURSIVE Toposort(_, _)
Toposort(o, ran) ==
    IF ran = DOMAIN o \/ Ready(o, ran) = {} THEN <<>>
    ELSE LET i == Min(Ready(o, ran))
         IN  <<i>> \o Toposort(o, ran \cup {i})

StepOp(op, v) ==
    CASE op.type = "Reset" -> StepReset(op, v)
      [] op.type = "PreserveValue" -> v
      [] op.type = "DotInc" -> StepDotInc(op, v)
      [] op.type = "ElementwiseInc" -> StepElementwiseInc(op, v)
      [] op.type = "ConnInc" -> StepConnInc(op, v)
      [] OTHER -> StepKernel(op, v)

\* Operators order[k..] run on the arrays v: the arrays they leave, and what
\* each operator found in the signals it reads and writes (s collects it)
RECURSIVE RunFrom(_, _, _, _, _)
RunFrom(o, order, k, v, s) ==
    IF k > Len(order) THEN [val |-> v, seen |-> s]
    ELSE LET op == o[order[k]]
         IN  RunFrom(o, order, k + 1, StepOp(op, v),
                     Append(s, [i |-> order[k],
                                at |-> [x \in op.reads \cup Writes(op) |->
                                           v[x]]]))

\* ------------------------------------------------------ inputs of a step
Ramp(n) == [i \in 1..n |-> RInt(i)]

\* Values the other builders' operators leave in a signal of length n
Inputs(s, n) ==
    CASE s \in {"acts", "pre_filtered"} -> {ZerosV(n), Ramp(n)}
      [] s \in {"post_filtered", "post_out"} -> {FullV(n, One), Ramp(n)}
      [] s = "theta" -> {FullV(n, One), Ramp(n)}
      [] s = "voltage" -> {VScale(RInt(-1), Ramp(n)), Ramp(n)}
      [] s = "conn_out" -> {FullV(n, One), Ramp(n)}
      [] s = "drive" -> {<<RInt(-2)>>, <<RInt(-1)>>, <<One>>}

\* Initial content of the target and of the encoders a rule reads
Mixed(shape) ==
    [i \in 1..shape[1] |->
        [j \in 1..shape[2] |-> IF (i + j) % 2 = 0 THEN RInt(-1) ELSE One]]

TargetInits(shape) == {ZerosM(shape[1], shape[2]), Mixed(shape)}

\* ------------------------------------------------------------ descriptors
\* Python values handed to the constructors and kept as attributes: None, a
\* string, a number; Unset is an attribute that was never assigned.
PyNone == [t |-> "none", s |-> "", n |-> Zero]
PyStr(x) == [t |-> "str", s |-> x, n |-> Zero]
PyNum(r) == [t |-> "num", s |-> "", n |-> r]
Unset == [t |-> "unset", s |-> "", n |-> Zero]

AttrNames ==
    {"learning_rate", "size_in", "clip_type", "clipType", "decay_rate_x_dt",
     "pre_tau", "post_tau", "theta_tau", "theta", "beta", "integral_tau"}

\* An object under construction: its class, the exception that ended the
\* constructor ("ok" when none), its instance attributes, the warnings
\* issued.
NewObject(cls) ==
    [cls |-> cls, exc |-> "ok", attrs |-> [a \in AttrNames |-> Unset],
     warnings |-> {}]

SetAttr(o, name, v) ==
    IF o.exc # "ok" THEN o ELSE [o EXCEPT !.attrs[name] = v]

Warn(o, w) ==
    IF o.exc # "ok" THEN o ELSE [o EXCEPT !.warnings = @ \cup {w}]

Throw(o, e) == IF o.exc # "ok" THEN o ELSE [o EXCEPT !.exc = e]

\* NumberParam(low=0, low_open=..., optional=...): does it accept v
NumberParam(v, low_open, optional) ==
    CASE v.t = "none" -> optional
      [] v.t = "num" -> IF low_open THEN RIsPos(v.n) ELSE ~RIsNeg(v.n)
      [] OTHER -> FALSE

SetNumber(o, name, v, low_open, optional) ==
    IF NumberParam(v, low_open, optional) THEN SetAttr(o, name, v)
    ELSE Throw(o, "ValidationError")

\* IntParam(low=0): an integer that is not negative, never None
IntParam(v) == v.t = "num" /\ v.n[2] = 1 /\ v.n[1] >= 0

valid_strings == {"pre", "post", "mid", "pre_state", "post_state"}

\* LearningRuleTypeSizeInParam.coerce: "ok" or the exception raised. The
\* message of the ValidationError is formatted from self.strings, an
\* attribute the class does not define (it defines valid_strings).
LearningRuleTypeSizeInParam_coerce(size_in) ==
    IF size_in.t = "str"
    THEN IF size_in.s \notin valid_strings THEN "AttributeError" ELSE "ok"
    ELSE IF IntParam(size_in) THEN "ok" ELSE "ValidationError"

SetSizeIn(o, size_in) ==
    IF LearningRuleTypeSizeInParam_coerce(size_in) = "ok"
    THEN SetAttr(o, "size_in", size_in)
    ELSE Throw(o, LearningRuleTypeSizeInParam_coerce(size_in))

\* Lines 85-93: clip_type becomes the attribute clip_type, 0, 1 or 2; any
\* other value is warned about and the attribute stays unassigned
SetClipType(o, clip_type) ==
    CASE clip_type = PyNone -> SetAttr(o, "clip_type", PyNum(Zero))
      [] clip_type = PyStr("clip<0") -> SetAttr(o, "clip_type", PyNum(One))
      [] clip_type = PyStr("clip>0") ->
            SetAttr(o, "clip_type", PyNum(RInt(2)))
      [] OTHER -> Warn(o, "clip_type is not supported")

\* LearningRuleType.__init__(learning_rate, size_in, clip_type,
\* decay_rate_x_dt)
LearningRuleType_init(o, learning_rate, size_in, clip_type, decay_rate_x_dt) ==
    SetAttr(SetClipType(SetSizeIn(
                SetNumber(o, "learning_rate", learning_rate, TRUE, FALSE),
                size_in), clip_type),
            "decay_rate_x_dt", decay_rate_x_dt)

\* if learning_rate >= 1.0: warnings.warn(...)
WarnHighRate(o, learning_rate) ==
    IF learning_rate.t = "num" /\ ~RIsNeg(RSub(learning_rate.n, One))
    THEN Warn(o, "learning rate is very high")
    ELSE o

\* PES.__init__: line 142 puts positional arguments after the keyword
\* argument size_in='post_state', which Python does not compile; no PES
\* object comes to exist.
PES_init(a) == Throw(NewObject("PES"), "SyntaxError")

\* VoltageRule.__init__: clipType and decay_rate_x_dt are passed on by
\* position, where the base class takes size_in and clip_type
VoltageRule_init(a) ==
    LearningRuleType_init(
        SetAttr(SetNumber(WarnHighRate(NewObject("VoltageRule"),
                                       a.learning_rate),
                          "pre_tau", a.pre_tau, TRUE, FALSE),
                "integral_tau", a.integral_tau),
        a.learning_rate, a.clip, a.decay_rate_x_dt, PyNum(Zero))

\* post_tau if post_tau is not None else pre_tau
PostTauOrPreTau(post_tau, pre_tau) ==
    IF post_tau # PyNone THEN post_tau ELSE pre_tau

BCM_init(a) ==
    LearningRuleType_init(
        SetNumber(SetNumber(SetNumber(SetAttr(NewObject("BCM"),
                                              "theta", a.theta),
                                      "theta_tau", a.theta_tau, TRUE, FALSE),
                            "pre_tau", a.pre_tau, TRUE, FALSE),
                  "post_tau", PostTauOrPreTau(a.post_tau, a.pre_tau),
                  TRUE, FALSE),
        a.learning_rate, PyNum(Zero), PyNone, PyNum(Zero))

InhVSG_init(a) ==
    LearningRuleType_init(
        SetNumber(SetNumber(SetNumber(NewObject("InhVSG"),
                                      "pre_tau", a.pre_tau, TRUE, FALSE),
                            "post_tau",
                            PostTauOrPreTau(a.post_tau, a.pre_tau),
                            TRUE, FALSE),
                  "theta", a.theta, TRUE, FALSE),
        a.learning_rate, a.clip, a.decay_rate_x_dt, PyNum(Zero))

Oja_init(a) ==
    LearningRuleType_init(
        SetNumber(SetNumber(SetNumber(NewObject("Oja"),
                                      "pre_tau", a.pre_tau, TRUE, FALSE),
                            "post_tau",
                            PostTauOrPreTau(a.post_tau, a.pre_tau),
                            TRUE, FALSE),
                  "beta", a.beta, FALSE, FALSE),
        a.learning_rate, PyNum(Zero), PyNone, PyNum(Zero))

Voja_init(a) ==
    LearningRuleType_init(
        SetNumber(NewObject("Voja"), "post_tau", a.post_tau, TRUE, TRUE),
        a.learning_rate, PyNum(One), PyNone, PyNum(Zero))

\* cls(...): the object the constructor call leaves
Construct(a) ==
    CASE a.cls = "LearningRuleType" ->
            LearningRuleType_init(NewObject("LearningRuleType"),
                                  a.learning_rate, a.size_in, a.clip,
                                  a.decay_rate_x_dt)
      [] a.cls = "PES" -> PES_init(a)
      [] a.cls = "VoltageRule" -> VoltageRule_init(a)
      [] a.cls = "BCM" -> BCM_init(a)
      [] a.cls = "InhVSG" -> InhVSG_init(a)
      [] a.cls = "Oja" -> Oja_init(a)
      [] a.cls = "Voja" -> Voja_init(a)

\* The class attributes modifies and probeable
ModifiesOf(cls) ==
    CASE cls \in {"PES", "VoltageRule"} -> "decoders"
      [] cls \in {"BCM", "InhVSG", "Oja"} -> "weights"
      [] cls = "Voja" -> "encoders"
      [] OTHER -> "None"

probeable(cls) ==
    CASE cls = "PES" -> {"error", "correction", "activities", "delta"}
      [] cls = "VoltageRule" -> {"correction", "activities", "delta"}
      [] cls = "BCM" -> {"theta", "pre_filtered", "post_filtered", "delta"}
      [] cls \in {"InhVSG", "Oja"} -> {"pre_filtered", "post_filtered", "delta"}
      [] cls = "Voja" -> {"post_filtered", "scaled_encoders", "delta"}
      [] OTHER -> {}

\* Arguments of the constructor calls
Classes ==
    {"LearningRuleType", "PES", "VoltageRule", "BCM", "InhVSG", "Oja", "Voja"}

LearningRateArgs ==
    {PyNum(RInt(-1)), PyNum(Zero), PyNum(Rat(1, 2)), PyNum(RInt(2))}
TauArgs == {PyNum(RInt(-1)), PyNum(Zero), PyNum(One)}
PostTauArgs == {PyNone, PyNum(Zero), PyNum(RInt(2))}
IntegralTauArgs == {PyNone, PyNum(RInt(-1)), PyNum(One)}
BetaArgs == {PyNum(RInt(-1)), PyNum(Zero), PyNum(One)}
ClipArgs ==
    {PyNone, PyStr("clip<0"), PyStr("clip>0"), PyStr("clip<1"), PyNum(One)}
DecayArgs == {PyNum(Zero), PyNum(Rat(1, 2))}
SizeInArgs ==
    {PyNone, PyNum(RInt(-1)), PyNum(Zero), PyNum(One), PyNum(Rat(1, 2)),
     PyStr("pre"), PyStr("post_state"), PyStr("error")}

\* A call cls(...): arguments the class does not take are None
ArgsOf(cls) ==
    [cls : {cls},
     learning_rate : LearningRateArgs,
     size_in : IF cls = "LearningRuleType" THEN SizeInArgs ELSE {PyNone},
     clip : IF cls \in {"LearningRuleType", "PES", "VoltageRule", "InhVSG"}
            THEN ClipArgs ELSE {PyNone},
     decay_rate_x_dt :
         IF cls \in {"LearningRuleType", "PES", "VoltageRule", "InhVSG"}
         THEN DecayArgs ELSE {PyNone},
     pre_tau : IF cls \in {"LearningRuleType", "Voja"} THEN {PyNone}
               ELSE TauArgs,
     post_tau : IF cls \in {"BCM", "InhVSG", "Oja", "Voja"} THEN PostTauArgs
                ELSE {PyNone},
     theta_tau : IF cls = "BCM" THEN TauArgs ELSE {PyNone},
     theta : CASE cls = "BCM" -> {PyNone, PyNum(One)}
               [] cls = "InhVSG" -> {PyNum(Zero), PyNum(One)}
               [] OTHER -> {PyNone},
     beta : IF cls = "Oja" THEN BetaArgs ELSE {PyNone},
     integral_tau : IF cls \in {"PES", "VoltageRule"} THEN IntegralTauArgs
                    ELSE {PyNone}]

NoArgs ==
    [cls |-> "none", learning_rate |-> PyNone, size_in |-> PyNone,
     clip |-> PyNone, decay_rate_x_dt |-> PyNone, pre_tau |-> PyNone,
     post_tau |-> PyNone, theta_tau |-> PyNone, theta |-> PyNone,
     beta |-> PyNone, integral_tau |-> PyNone]

NoDescriptor == [args |-> NoArgs, obj |-> NewObject("none")]

\* A number attribute as the builders read it; None and an unassigned
\* attribute read as None
NumberOf(v) == IF v.t = "num" THEN v.n ELSE NoneR

\* LearningRule.size_in: the descriptor's size_in, a tag resolved on the
\* connection
SizeInOf(v, pre_n, post_dims) ==
    CASE v.t = "num" -> v.n[1]
      [] v.t = "str" /\ v.s \in {"pre", "pre_state"} -> pre_n
      [] OTHER -> post_dims

\* The LearningRule of a constructed descriptor on a connection, as
\* build_learning_rule reads it; conn is as in Build
RuleOf(o, conn) ==
    [kind |-> o.cls, modifies |-> ModifiesOf(o.cls),
     learning_rate |-> NumberOf(o.attrs["learning_rate"]),
     has_clipType |-> o.attrs["clipType"] # Unset,
     clipType |-> NumberOf(o.attrs["clipType"])[1],
     decay_rate_x_dt |-> NumberOf(o.attrs["decay_rate_x_dt"]),
     integral_tau |-> NumberOf(o.attrs["integral_tau"]),
     theta |-> NumberOf(o.attrs["theta"]),
     beta |-> NumberOf(o.attrs["beta"]),
     pre_tau |-> NumberOf(o.attrs["pre_tau"]),
     post_tau |-> NumberOf(o.attrs["post_tau"]),
     theta_tau |-> NumberOf(o.attrs["theta_tau"]),
     pre_obj |-> conn.pre_obj, post_obj |-> conn.post_obj,
     is_decoded |-> conn.is_decoded, pre_n |-> conn.pre_n,
     post_n |-> conn.post_n, post_dims |-> conn.post_dims,
     size_in |-> SizeInOf(o.attrs["size_in"], conn.pre_n, conn.post_dims),
     wshape |-> conn.wshape]

\* The connections a rule is built on
Connections ==
    [pre_obj : ObjTypes, post_obj : ObjTypes, is_decoded : BOOLEAN,
     pre_n : Sizes, post_n : Sizes, post_dims : Sizes,
     wshape : Sizes \X Sizes]

\* Mutant: only the class of the rule is checked.
check_rule_ClassOnly(r) ==
    IF r.cls \notin Classes THEN "ValidationError" ELSE "ok"

\* LearningRuleTypeParam.check_rule: "ok" or the exception raised
check_rule(r) ==
    IF r.cls \notin Classes THEN "ValidationError"
    ELSE IF ModifiesOf(r.cls) \notin {"encoders", "decoders", "weights"}
         THEN "ValidationError"
         ELSE "ok"

\* A value assigned to conn.learning_rule_type: None, one object, or a
\* list or dict of objects (of a dict its values, in iteration order)
NoValue == [how |-> "None", elems |-> <<>>]

\* LearningRuleTypeParam.coerce: is_iterable holds of a list and of a dict,
\* every element is checked; Parameter.coerce accepts what is left
LearningRuleTypeParam_coerce(v) ==
    IF v.how \in {"list", "dict"}
    THEN IF \E i \in DOMAIN v.elems : check_rule(v.elems[i]) # "ok"
         THEN "ValidationError" ELSE "ok"
    ELSE IF v.how # "None" THEN check_rule(v.elems[1]) ELSE "ok"

\* Other objects a list or dict of rules may hold: an Oja() and an object
\* that is no learning rule type
AnOja ==
    Construct([NoArgs EXCEPT !.cls = "Oja",
                             !.learning_rate = PyNum(Rat(1, 2)),
                             !.pre_tau = PyNum(One), !.beta = PyNum(One)])

NotARule == NewObject("int")

\* The values conn.learning_rule_type is set to, given a descriptor d
AssignedValues(d) ==
    {NoValue, [how |-> "single", elems |-> <<d>>],
     [how |-> "single", elems |-> <<NotARule>>]}
    \cup [how : {"list", "dict"},
          elems : {<<d>>, <<AnOja, d>>, <<d, AnOja>>, <<d, NotARule>>}]

\* ------------------------------------------------------------------- state
VARIABLES
    phase,     \* "new", "built", "failed", "running", "crashed";
               \* "type built", "type failed" for a rule type's builder;
               \* "pair built", "pair running" for two rules of a connection
    rule,      \* the rule handed to build_learning_rule
    status,    \* "ok" or the exception that ended the build
    ops,       \* model.operators
    sig,       \* model.sig[rule]
    val,       \* the signals' arrays
    prev,      \* the signals' arrays when the last step began
    seen,      \* what each operator found in its signals in the last step
    schedule,  \* the order the simulator runs the operators in
    step,      \* number of simulation steps run
    synapses,  \* the synapses built: time constant, input, output
    lrt,       \* a constructor call and the descriptor it left
    assigned   \* the value conn.learning_rule_type was set to, and how
               \* the assignment ended

vars ==
    <<phase, rule, status, ops, sig, val, prev, seen, schedule, step,
      synapses, lrt, assigned>>

NotAssigned == [value |-> NoValue, result |-> "no"]

Init ==
    /\ phase = "new"
    /\ rule = NoRule
    /\ status = "ok"
    /\ ops = <<>>
    /\ sig = {}
    /\ val = [s \in AllSignals |-> NoVal]
    /\ prev = [s \in AllSignals |-> NoVal]
    /\ seen = <<>>
    /\ schedule = <<>>
    /\ step = 0
    /\ synapses = {}
    /\ lrt = NoDescriptor
    /\ assigned = NotAssigned

\* Builder.build(model, rule)
BuildRule(r) ==
    LET M == build_learning_rule(r)
    IN  /\ rule' = r
        /\ status' = M.status
        /\ ops' = M.ops
        /\ sig' = M.sig
        /\ val' = M.val
        /\ synapses' = M.synapses
        /\ phase' = IF M.status = "ok" THEN "built" ELSE "failed"

Build ==
    /\ phase = "new"
    /\ \E k \in Kinds, lr \in LearningRates, c \in ClipAttrs,
          dr \in DecayRates, po \in ObjTypes \X ObjTypes, dec \in BOOLEAN,
          n \in Sizes \X Sizes \X Sizes :
        \E it \in IntegralTausOf(k), th \in Thetas(k), b \in BetasOf(k),
           pt \in PostTausOf(k), si \in SizeIns(k), ws \in WeightShapesOf(k) :
            BuildRule(
                [kind |-> k, modifies |-> Modifies(k), learning_rate |-> lr,
                 has_clipType |-> c[1], clipType |-> c[2],
                 decay_rate_x_dt |-> dr, integral_tau |-> it, theta |-> th,
                 beta |-> b, pre_tau |-> PreTau, post_tau |-> pt,
                 theta_tau |-> ThetaTau, pre_obj |-> po[1],
                 post_obj |-> po[2], is_decoded |-> dec, pre_n |-> n[1],
                 post_n |-> n[2], post_dims |-> n[3], size_in |-> si,
                 wshape |-> ws])
    /\ UNCHANGED <<prev, seen, schedule, step, lrt, assigned>>

\* A connection whose post object is the learning rule is built: its
\* operator increments model.sig[rule]['in'].
AttachErrorConnection ==
    /\ phase = "built"
    /\ \A i \in DOMAIN ops : ops[i].type # "ConnInc"
    /\ \E p \in sig :
        /\ p[1] = "in"
        /\ ops' = Append(ops, ConnInc(p[2]))
    /\ val' = [val EXCEPT !["drive"] = ZerosV(1)]
    /\ UNCHANGED <<phase, rule, status, sig, prev, seen, schedule, step,
                   synapses, lrt, assigned>>

\* Simulator(model): the operators' step functions are made; the target and
\* the encoders hold what their builders put there.
StartSim ==
    /\ phase = "built"
    /\ IF \E i \in DOMAIN ops :
              ops[i].type = "DotInc" /\ ~ShapesFit(ops[i], val)
       THEN /\ phase' = "failed"
            /\ status' = "ValueError"
            /\ UNCHANGED <<rule, val, schedule>>
       ELSE /\ phase' = "running"
            /\ rule' = LearningRuleType(rule)
            /\ schedule' = Toposort(ops, {})
            /\ \E t \in TargetInits(Shape(val[TargetSignal(rule)])) :
                  val' = [val EXCEPT
                            ![TargetSignal(rule)] = t,
                            !["encoders"] =
                                IF TargetSignal(rule) = "encoders" THEN t
                                ELSE IF val["encoders"] = NoVal THEN NoVal
                                ELSE Mixed(Shape(val["encoders"]))]
            /\ UNCHANGED status
    /\ UNCHANGED <<ops, sig, prev, seen, step, synapses, lrt, assigned>>

\* The signals an operator of the model reads and no operator of it writes
ReadExternally(s) ==
    /\ s \in ExternalSignals
    /\ \E i \in DOMAIN ops : s \in ops[i].reads

InputsOf(s) ==
    IF ReadExternally(s) THEN Inputs(s, Len(val[s])) ELSE {val[s]}

\* Simulator.step(): the other builders' operators have written their
\* signals, then every operator of the model runs once, in schedule order.
Step ==
    /\ phase = "running"
    /\ step < MaxSteps
    /\ \E a \in InputsOf("acts"), pre \in InputsOf("pre_filtered"),
          post \in InputsOf("post_filtered"), po \in InputsOf("post_out"),
          th \in InputsOf("theta"), vo \in InputsOf("voltage"),
          co \in InputsOf("conn_out"), d \in InputsOf("drive") :
        LET v0 == [val EXCEPT !["acts"] = a, !["pre_filtered"] = pre,
                              !["post_filtered"] = post, !["post_out"] = po,
                              !["theta"] = th, !["voltage"] = vo,
                              !["conn_out"] = co, !["drive"] = d]
            R == RunFrom(ops, schedule, 1, v0, <<>>)
        IN  IF \E i \in DOMAIN ops : ~ShapesFit(ops[i], v0)
            THEN /\ phase' = "crashed"
                 /\ UNCHANGED <<val, prev, seen, step>>
            ELSE /\ val' = R.val
                 /\ prev' = v0
                 /\ seen' = R.seen
                 /\ step' = step + 1
                 /\ UNCHANGED phase
    /\ UNCHANGED <<rule, status, ops, sig, schedule, synapses, lrt, assigned>>

Next ==
    \/ Build
    \/ AttachErrorConnection
    \/ StartSim
    \/ Step

Spec == Init /\ [][Next]_vars

\* A descriptor is constructed: cls(...)
ConstructDescriptor ==
    /\ phase = "new"
    /\ lrt = NoDescriptor
    /\ \E cls \in Classes : \E a \in ArgsOf(cls) :
          lrt' = [args |-> a, obj |-> Construct(a)]
    /\ UNCHANGED <<phase, rule, status, ops, sig, val, prev, seen, schedule,
                   step, synapses, assigned>>

\* Builder.build(model, rule) for a LearningRule of the constructed
\* descriptor
BuildConstructed ==
    /\ phase = "new"
    /\ lrt # NoDescriptor
    /\ lrt.obj.exc = "ok"
    /\ \E conn \in Connections : BuildRule(RuleOf(lrt.obj, conn))
    /\ UNCHANGED <<prev, seen, schedule, step, lrt, assigned>>

\* conn.learning_rule_type = value, a value holding the constructed
\* descriptor
AssignToConnection ==
    /\ phase = "new"
    /\ lrt # NoDescriptor
    /\ lrt.obj.exc = "ok"
    /\ assigned = NotAssigned
    /\ \E v \in AssignedValues(lrt.obj) :
          assigned' = [value |-> v, result |-> LearningRuleTypeParam_coerce(v)]
    /\ UNCHANGED <<phase, rule, status, ops, sig, val, prev, seen, schedule,
                   step, synapses, lrt>>

\* A model in which model.sig[rule]['delta'] and the target exist and no
\* operator has been added: what a caller of a rule type's builder provides
DeltaOnly(r) ==
    LET d == DeltaShape(r)
        t == TargetShape(r)
    IN  Publish(Alloc(Alloc(EmptyModel, "delta", ZerosM(d[1], d[2])),
                      TargetSignal(r), ZerosM(t[1], t[2])),
                "delta", "delta")

\* model.build(rule.learning_rule_type, rule) on that model
BuildRuleType(r) ==
    LET M == build_type(DeltaOnly(r), r)
    IN  /\ rule' = r
        /\ status' = M.status
        /\ ops' = M.ops
        /\ sig' = M.sig
        /\ val' = M.val
        /\ synapses' = M.synapses
        /\ phase' = IF M.status = "ok" THEN "type built" ELSE "type failed"

\* The same for the rule of a constructed descriptor
BuildConstructedType ==
    /\ phase = "new"
    /\ lrt # NoDescriptor
    /\ lrt.obj.exc = "ok"
    /\ lrt.obj.cls # "LearningRuleType"
    /\ \E conn \in Connections : BuildRuleType(RuleOf(lrt.obj, conn))
    /\ UNCHANGED <<prev, seen, schedule, step, lrt, assigned>>

DescrNext ==
    \/ ConstructDescriptor
    \/ AssignToConnection
    \/ BuildConstructed
    \/ BuildConstructedType

DescrSpec == Init /\ [][DescrNext]_vars

\* The builder of a rule type is called on its own, for any connection
BuildType ==
    /\ phase = "new"
    /\ \E k \in Kinds, lr \in LearningRates, po \in ObjTypes \X ObjTypes,
          dec \in BOOLEAN, n \in Sizes \X Sizes \X Sizes :
        \E it \in IntegralTausOf(k), th \in Thetas(k), b \in BetasOf(k),
           pt \in PostTausOf(k), si \in SizeIns(k), ws \in WeightShapesOf(k) :
            BuildRuleType(
                [kind |-> k, modifies |-> Modifies(k), learning_rate |-> lr,
                 has_clipType |-> TRUE, clipType |-> 0,
                 decay_rate_x_dt |-> Zero, integral_tau |-> it, theta |-> th,
                 beta |-> b, pre_tau |-> PreTau, post_tau |-> pt,
                 theta_tau |-> ThetaTau, pre_obj |-> po[1],
                 post_obj |-> po[2], is_decoded |-> dec, pre_n |-> n[1],
                 post_n |-> n[2], post_dims |-> n[3], size_in |-> si,
                 wshape |-> ws])
    /\ UNCHANGED <<prev, seen, schedule, step, lrt, assigned>>

TypeNext == BuildType

TypeSpec == Init /\ [][TypeNext]_vars

\* Two rules of one connection, both modifying its weights: the Delta
\* Accumulation Operator of the second rule reads that rule's own delta
SecondRule(op) ==
    [op EXCEPT !.X = "delta2", !.reads = (@ \ {"delta"}) \cup {"delta2"}]

\* build_learning_rule up to the dispatch, for the first and for the second
\* rule, on one model
build_two(r1, r2) ==
    LET M1 == build_learning_rule_head(r1)
        M2 == build_learning_rule_head(r2)
    IN  IF M1.status # "ok" THEN M1
        ELSE IF M2.status # "ok" THEN Raise(M1, M2.status)
        ELSE [M1 EXCEPT !.ops = <<M1.ops[1], SecondRule(M2.ops[1])>>,
                        !.val["delta2"] = M2.val["delta"]]

\* A rule on the weights of a connection between two ensembles
WeightRule(c, dr, n) ==
    [kind |-> "Oja", modifies |-> Modifies("Oja"), learning_rate |-> One,
     has_clipType |-> TRUE, clipType |-> c, decay_rate_x_dt |-> dr,
     integral_tau |-> NoneR, theta |-> NoneR, beta |-> One,
     pre_tau |-> PreTau, post_tau |-> One, theta_tau |-> ThetaTau,
     pre_obj |-> "Ensemble", post_obj |-> "Ensemble", is_decoded |-> FALSE,
     pre_n |-> n[1], post_n |-> n[2], post_dims |-> 1, size_in |-> 0,
     wshape |-> <<n[2], n[1]>>]

\* Builder.build(model, rule) for both rules of the connection
BuildPair ==
    /\ phase = "new"
    /\ \E c1 \in ClipTypes, c2 \in ClipTypes, d1 \in DecayRates,
          d2 \in DecayRates, n \in Sizes \X Sizes :
        LET M == build_two(WeightRule(c1, d1, n), WeightRule(c2, d2, n))
        IN  /\ rule' = WeightRule(c1, d1, n)
            /\ status' = M.status
            /\ ops' = M.ops
            /\ sig' = M.sig
            /\ val' = M.val
            /\ synapses' = M.synapses
            /\ phase' = IF M.status = "ok" THEN "pair built" ELSE "failed"
    /\ UNCHANGED <<prev, seen, schedule, step, lrt, assigned>>

\* Simulator(model): the weights hold what the connection's builder put
\* there
StartPair ==
    /\ phase = "pair built"
    /\ \E t \in TargetInits(Shape(val["weights"])) :
          val' = [val EXCEPT !["weights"] = t]
    /\ phase' = "pair running"
    /\ UNCHANGED <<rule, status, ops, sig, prev, seen, schedule, step,
                   synapses, lrt, assigned>>

\* The orders in which the simulator may run two operators: every order
\* that Before allows
Schedules(o) ==
    {order \in {<<1, 2>>, <<2, 1>>} : ~Before(o[order[2]], o[order[1]])}

\* Simulator.step(): the two rules' kernels have left their deltas, the two
\* Delta Accumulation Operators run in an order the scheduler allows
StepPair ==
    /\ phase = "pair running"
    /\ step < MaxSteps
    /\ \E d1 \in TargetInits(Shape(val["delta"])),
          d2 \in TargetInits(Shape(val["delta2"])),
          order \in Schedules(ops) :
        LET v0 == [val EXCEPT !["delta"] = d1, !["delta2"] = d2]
            R == RunFrom(ops, order, 1, v0, <<>>)
        IN  /\ val' = R.val
            /\ prev' = v0
            /\ seen' = R.seen
            /\ schedule' = order
            /\ step' = step + 1
    /\ UNCHANGED <<phase, rule, status, ops, sig, synapses, lrt, assigned>>

PairNext ==
    \/ BuildPair
    \/ StartPair
    \/ StepPair

PairSpec == Init /\ [][PairNext]_vars

\* ------------------------------------------------------------ observations
Running == phase = "running" /\ step >= 1

\* The signal published as model.sig[rule]['in']
InSignal == (CHOOSE p \in sig : p[1] = "in")[2]

Driven == \E i \in DOMAIN ops : ops[i].type = "ConnInc"

\* The operator that increments delta (PES, VoltageRule) and the signal it
\* takes as local error
IncDeltaOp ==
    ops[CHOOSE i \in DOMAIN ops :
            ops[i].type = "ElementwiseInc" /\ ops[i].Y = "delta"]

LocalError == val[IncDeltaOp.A]

DecodedPES == \A i \in DOMAIN ops : ops[i].tag # "PES:encode"

Entries(m) == {<<i, j>> : i \in 1..Len(m), j \in 1..Len(m[1])}

\* ------------------------------------------------------------------ claims
\* The shape the delta of a rule is to have: that of the encoders, or of the
\* weights of a non-decoded or of a decoded connection.
ExpectedDeltaShape(r) ==
    IF r.modifies = "encoders" THEN <<r.post_n, r.post_dims>>
    ELSE IF r.is_decoded THEN <<r.size_in, r.pre_n>>
    ELSE <<r.post_n, r.pre_n>>

\* C1: after build_learning_rule the delta registered as
\* model.sig[rule]['delta'] has the shape of the target (and the shape the
\* rule's target calls for); a build whose delta and target shapes differ
\* ends with no operator and no signal added.
C1_DeltaShapeIsTargetShape ==
    /\ phase = "built" =>
          /\ <<"delta", "delta">> \in sig
          /\ Shape(val["delta"]) = ExpectedDeltaShape(rule)
          /\ Shape(val["delta"]) = Shape(val[TargetSignal(rule)])
    /\ phase = "running" =>
          Shape(val["delta"]) = Shape(val[TargetSignal(rule)])
    /\ (/\ phase = "failed"
        /\ SetUpDelta(rule) = "ok"
        /\ ExpectedDeltaShape(rule) # TargetShape(rule)) =>
          /\ status = "AssertionError"
          /\ ops = <<>>
          /\ sig = {}

C1_Witness ==
    /\ phase = "built"
    /\ rule.kind = "PES"
    /\ rule.is_decoded
    /\ Shape(val["delta"]) = <<2, 1>>
    /\ rule.post_n = 1

\* C2: in a built model the only operator that sets, increments or updates
\* the target is the ElementwiseInc build_learning_rule added for the rule;
\* every other operator writes only delta or an auxiliary signal of the rule.
AuxiliarySignals ==
    {"error", "learning", "correction", "encoded", "local_error"}

C2_SingleWriterOfTarget ==
    phase \in {"built", "running"} =>
        LET T == TargetSignal(rule)
        IN  /\ {i \in DOMAIN ops : T \in Writes(ops[i])} = {1}
            /\ ops[1].type = "ElementwiseInc"
            /\ ops[1].incs = {T}
            /\ ops[1].sets = {} /\ ops[1].updates = {}
            /\ \A i \in DOMAIN ops \ {1} :
                  Writes(ops[i]) \subseteq {"delta"} \cup AuxiliarySignals

C2_Witness ==
    /\ phase = "built"
    /\ rule.kind = "Oja"
    /\ \E i \in DOMAIN ops : ops[i].type = "SimOja" /\ "weights" \in ops[i].reads

\* C3: in every step rule['in'] holds its default (0 for PES, 1 for Voja and
\* InhVSG) when the incoming connection adds to it, and what a reader of it
\* finds is the default plus what the connection added in this step, the
\* default alone when no connection drives it.
C3_InputResetEveryStep ==
    (Running /\ rule.kind \in {"PES", "Voja", "InhVSG"}) =>
        LET S == InSignal
            n == Len(val[S])
            neutral == IF rule.kind = "PES" THEN Zero ELSE One
            added == IF Driven THEN val["drive"][1] ELSE Zero
        IN  \A k \in DOMAIN seen :
                LET op == ops[seen[k].i]
                IN  /\ op.type = "ConnInc" =>
                          seen[k].at[S] = FullV(n, neutral)
                    /\ S \in op.reads =>
                          seen[k].at[S] = FullV(n, RAdd(neutral, added))

C3_Witness ==
    /\ phase = "running"
    /\ step = 2
    /\ rule.kind = "Voja"
    /\ Driven
    /\ prev["learning"] = <<RInt(2)>>
    /\ val["learning"] = <<RInt(-1)>>

\* C4: PES on a decoded connection, unit error written into rule['in']:
\* after the first step delta = (-learning_rate*dt/n_pre) *
\* outer(error, pre_activity).
C4_PESSingleStepDelta ==
    (/\ phase = "running" /\ step = 1
     /\ rule.kind = "PES" /\ DecodedPES
     /\ Driven /\ val["drive"] = <<One>>) =>
        LET n_pre == Len(val["acts"])
            k == RDiv(RMul(RNeg(rule.learning_rate), dt), RInt(n_pre))
        IN  /\ val["error"] = FullV(Len(val["error"]), One)
            /\ \A e \in Entries(val["delta"]) :
                  val["delta"][e[1]][e[2]] =
                      RMul(k, RMul(val["error"][e[1]], val["acts"][e[2]]))

C4_Witness ==
    /\ phase = "running" /\ step = 1
    /\ rule.kind = "PES" /\ DecodedPES
    /\ Driven /\ val["drive"] = <<One>>
    /\ val["acts"] = Ramp(2)
    /\ val["delta"] = <<<<Rat(-1, 4), Rat(-1, 2)>>>>

\* C5: PES and VoltageRule with integral_tau = None: the operator that
\* increments delta finds it reset to zero, and delta after the step is
\* outer(local_error, pre_filtered) of this step, whatever delta was before.
C5_DeltaHasNoMemory ==
    (/\ Running /\ rule.kind \in {"PES", "VoltageRule"}
     /\ rule.integral_tau = NoneR) =>
        LET le == LocalError
        IN  /\ IncDeltaOp.decay_factor = One
            /\ \A k \in DOMAIN seen :
                  ops[seen[k].i] = IncDeltaOp =>
                      IsZeroM(seen[k].at["delta"])
            /\ \A e \in Entries(val["delta"]) :
                  val["delta"][e[1]][e[2]] =
                      RMul(le[IF Len(le) = 1 THEN 1 ELSE e[1]],
                           val["acts"][e[2]])

C5_Witness ==
    /\ phase = "running" /\ step = 2
    /\ rule.kind = "VoltageRule"
    /\ rule.integral_tau = NoneR
    /\ ~IsZeroM(prev["delta"])
    /\ ~IsZeroM(val["delta"])
    /\ val["delta"] # prev["delta"]

C7_BCMEquilibrium ==
    (/\ Running /\ rule.kind = "BCM" /\ rule.theta # NoneR
     /\ \A i \in 1..Len(val["post_filtered"]) :
            val["post_filtered"][i] = rule.theta) =>
        IsZeroM(val["delta"])

C7_Witness ==
    /\ Running /\ rule.kind = "BCM" /\ rule.theta # NoneR
    /\ val["post_filtered"] = FullV(2, rule.theta)
    /\ val["pre_filtered"] = Ramp(2)
    /\ ~IsZeroM(prev["delta"])

\* C8: Oja: when the weights SimOja reads are all zero, the delta it writes
\* is outer(learning_rate*dt*post_filtered, pre_filtered).
C8_OjaZeroWeights ==
    (Running /\ rule.kind = "Oja") =>
        \A k \in DOMAIN seen :
            (/\ ops[seen[k].i].type = "SimOja"
             /\ IsZeroM(seen[k].at["weights"])) =>
                \A e \in Entries(val["delta"]) :
                    val["delta"][e[1]][e[2]] =
                        RMul(RMul(RMul(rule.learning_rate, dt),
                                  val["post_filtered"][e[1]]),
                             val["pre_filtered"][e[2]])

C8_Witness ==
    /\ Running /\ rule.kind = "Oja"
    /\ \E k \in DOMAIN seen :
          /\ ops[seen[k].i].type = "SimOja"
          /\ IsZeroM(seen[k].at["weights"])
    /\ val["post_filtered"] = Ramp(2)
    /\ val["pre_filtered"] = Ramp(2)
    /\ ~IsZeroM(val["delta"])

\* The learning signal SimVoja read in the last step
VojaLearningSignal ==
    LET k == CHOOSE k \in DOMAIN seen : ops[seen[k].i].type = "SimVoja"
    IN  seen[k].at["learning"][1]

\* C9 as stated: when the learning signal SimVoja reads is exactly -1, the
\* delta it writes is the zero matrix.
C9_ZeroDeltaAtMinusOne ==
    (Running /\ rule.kind = "Voja" /\ VojaLearningSignal = RInt(-1)) =>
        IsZeroM(val["delta"])

\* C9, amended: when the connection into the rule writes exactly -1 to
\* rule['in'], the learning signal SimVoja reads is 1 + (-1) = 0, and
\* whenever the signal it reads is 0 the delta it writes is the zero matrix.
C9_ZeroDeltaAtZeroSignal ==
    (Running /\ rule.kind = "Voja") =>
        /\ (Driven /\ val["drive"] = <<RInt(-1)>>) =>
              VojaLearningSignal = Zero
        /\ VojaLearningSignal = Zero => IsZeroM(val["delta"])

C9_Witness ==
    /\ Running /\ rule.kind = "Voja"
    /\ Driven /\ val["drive"] = <<RInt(-1)>>
    /\ VojaLearningSignal = Zero
    /\ val["conn_out"] = Ramp(2)
    /\ \E po \in {"post_filtered", "post_out"} : val[po] = Ramp(2)
    /\ ~IsZeroM(prev["delta"])
    /\ ~IsZeroM(val["encoders"])

\* What the Delta Accumulation Operator found in the last step, and the
\* target before clipping: target*decay + 1*delta
Accumulated ==
    LET k == CHOOSE k \in DOMAIN seen : seen[k].i = 1
        T == TargetSignal(rule)
        decay == RSub(One, rule.decay_rate_x_dt)
    IN  [e \in Entries(val[T]) |->
            RAdd(RMul(decay, seen[k].at[T][e[1]][e[2]]),
                 seen[k].at["delta"][e[1]][e[2]])]

\* C10: with clip policy clip-negative the target after the step holds, in
\* every entry, target*decay + delta where that is not negative and zero
\* where it is negative; with policy none it holds target*decay + delta.
C10_ClipNegative ==
    Running =>
        LET new == val[TargetSignal(rule)]
        IN  \A e \in Entries(new) :
                /\ rule.clipType = 1 =>
                      new[e[1]][e[2]] =
                          IF RIsNeg(Accumulated[e]) THEN Zero
                          ELSE Accumulated[e]
                /\ rule.clipType = 0 => new[e[1]][e[2]] = Accumulated[e]

C10_Witness ==
    /\ Running /\ rule.clipType = 1
    /\ rule.decay_rate_x_dt # Zero
    /\ \E e \in Entries(val[TargetSignal(rule)]) :
          RIsNeg(Accumulated[e]) /\ val[TargetSignal(rule)][e[1]][e[2]] = Zero
    /\ \E e \in Entries(val[TargetSignal(rule)]) :
          RIsPos(Accumulated[e])
          /\ val[TargetSignal(rule)][e[1]][e[2]] = Accumulated[e]

\* --------------------------------------------------- claims on descriptors
Constructed == lrt # NoDescriptor

\* Arguments other than the clip policy that every parameter accepts
PlainArgs(a) ==
    /\ a.learning_rate.t = "num" /\ RIsPos(a.learning_rate.n)
    /\ a.pre_tau = PyNone \/ RIsPos(a.pre_tau.n)
    /\ a.post_tau = PyNone \/ RIsPos(a.post_tau.n)
    /\ a.theta_tau = PyNone \/ RIsPos(a.theta_tau.n)
    /\ a.theta = PyNone \/ RIsPos(a.theta.n)
    /\ a.beta = PyNone \/ ~RIsNeg(a.beta.n)
    /\ a.integral_tau = PyNone \/ RIsPos(a.integral_tau.n)
    /\ a.cls = "LearningRuleType" =>
          LearningRuleTypeSizeInParam_coerce(a.size_in) = "ok"

\* The integer a clip policy is kept as: None 0, 'clip<0' 1, 'clip>0' 2
ClipCode(c) ==
    CASE c = PyNone -> 0
      [] c = PyStr("clip<0") -> 1
      [] c = PyStr("clip>0") -> 2

\* The connection and sizes of the rule admit a build: build_learning_rule
\* of the same rule with a clipType attribute ends without exception
Buildable(r) ==
    build_learning_rule([r EXCEPT !.has_clipType = TRUE]).status = "ok"

RuleBuildEnded == phase \in {"built", "failed"}

\* C11: a LearningRuleType, PES, VoltageRule or InhVSG constructed with
\* clip policy c in {None, 'clip<0', 'clip>0'} and decay_rate_x_dt = r is
\* constructed without exception and keeps c and r, and a build of its rule
\* gives the Delta Accumulation Operator clip policy c and decay factor
\* 1 - r. Stated for the three classes whose constructor compiles; PES
\* fails it at line 142 whatever the arguments.
C11_ClipAndDecayReachOperator ==
    (/\ Constructed
     /\ lrt.args.cls \in {"LearningRuleType", "VoltageRule", "InhVSG"}
     /\ lrt.args.clip \in {PyNone, PyStr("clip<0"), PyStr("clip>0")}
     /\ PlainArgs(lrt.args)) =>
        /\ lrt.obj.exc = "ok"
        /\ lrt.obj.attrs["clip_type"] = PyNum(RInt(ClipCode(lrt.args.clip)))
        /\ lrt.obj.attrs["decay_rate_x_dt"] = lrt.args.decay_rate_x_dt
        /\ (RuleBuildEnded /\ Buildable(rule)) =>
              /\ phase = "built"
              /\ ops[1].type = "ElementwiseInc"
              /\ ops[1].clipType = ClipCode(lrt.args.clip)
              /\ ops[1].decay_factor =
                    RSub(One, lrt.args.decay_rate_x_dt.n)

\* C12: a constructor call with a clip policy string other than 'clip<0'
\* and 'clip>0' raises nothing, warns, and leaves a descriptor whose clip
\* policy is "no clipping"; a build of its rule succeeds and its Delta
\* Accumulation Operator does not clip. Stated for the classes other than
\* PES, whose constructor does not compile.
C12_UnknownClipFallsBack ==
    (/\ Constructed
     /\ lrt.args.cls # "PES"
     /\ lrt.args.clip.t = "str"
     /\ lrt.args.clip.s \notin {"clip<0", "clip>0"}
     /\ PlainArgs(lrt.args)) =>
        /\ lrt.obj.exc = "ok"
        /\ lrt.obj.warnings # {}
        /\ lrt.obj.attrs["clip_type"] = PyNum(Zero)
        /\ (RuleBuildEnded /\ Buildable(rule)) =>
              /\ phase = "built"
              /\ ops[1].type = "ElementwiseInc"
              /\ ops[1].clipType = 0

\* ------------------------------------------- claims on rule type builders
TypeBuildEnded == phase \in {"type built", "type failed"}

NeuronPopulation(obj) == obj \in {"Ensemble", "Neurons"}

\* The signal the increment of delta takes as local error
LocalErrorSignal == IncDeltaOp.A

Holds(v, d) == \E i \in DOMAIN v.elems : v.elems[i] = d

\* C15: a descriptor whose modifies is not 'encoders', 'decoders' or
\* 'weights' is rejected. Setting conn.learning_rule_type to it, or to a
\* list or a dict that holds it, raises ValidationError; build_learning_rule
\* of its rule raises ValueError and leaves the model without operator and
\* without signal.
C15_UnknownModifiesRejected ==
    (/\ Constructed
     /\ lrt.obj.exc = "ok"
     /\ ModifiesOf(lrt.obj.cls) \notin {"encoders", "decoders", "weights"}) =>
        /\ Holds(assigned.value, lrt.obj) =>
              assigned.result = "ValidationError"
        /\ RuleBuildEnded =>
              /\ status = "ValueError"
              /\ ops = <<>>
              /\ sig = {}

C15_Witness ==
    /\ Constructed
    /\ lrt.obj.cls = "LearningRuleType"
    /\ assigned.value.how = "dict"
    /\ assigned.value.elems = <<AnOja, lrt.obj>>
    /\ assigned.result = "ValidationError"
    /\ phase = "failed"
    /\ status = "ValueError"

\* ---------------------------------------------------- claims on parameters
\* C16: LearningRuleTypeSizeInParam.coerce accepts a string size_in only
\* when it is 'pre', 'post', 'mid', 'pre_state' or 'post_state', and keeps
\* it unchanged; any other string raises ValidationError; a value that is
\* not a string is accepted exactly when it is an integer that is not
\* negative, and raises ValidationError otherwise. Seen on
\* LearningRuleType(learning_rate, size_in) with a valid learning_rate.
C16_SizeInCoerce ==
    (/\ Constructed
     /\ lrt.args.cls = "LearningRuleType"
     /\ NumberParam(lrt.args.learning_rate, TRUE, FALSE)) =>
        LET size_in == lrt.args.size_in
        IN  IF size_in.t = "str"
            THEN IF size_in.s \in valid_strings
                 THEN /\ lrt.obj.exc = "ok"
                      /\ lrt.obj.attrs["size_in"] = size_in
                 ELSE lrt.obj.exc = "ValidationError"
            ELSE IF size_in.t = "num" /\ size_in.n[2] = 1 /\ size_in.n[1] >= 0
                 THEN /\ lrt.obj.exc = "ok"
                      /\ lrt.obj.attrs["size_in"] = size_in
                 ELSE lrt.obj.exc = "ValidationError"

\* ------------------------------------------------ claims on model.sig[rule]
Published == {p[1] : p \in sig}

BuiltOk == phase \in {"built", "running"}

\* A published name is bound to a signal the model holds
BoundToSignal(p) == p[2] \in AllSignals /\ val[p[2]] # NoVal

TauNames == {"pre_tau", "post_tau", "theta_tau", "integral_tau"}

Positive(v) == v.t = "num" /\ RIsPos(v.n)

NotPositive(v) == v.t = "num" /\ ~RIsPos(v.n)

\* C18: a descriptor constructed without exception has a learning_rate
\* above zero and every tau it holds (pre_tau, post_tau, theta_tau,
\* integral_tau) above zero; a constructor call with a learning_rate or a
\* tau that is zero or negative raises ValidationError. Stated for the
\* classes other than PES, whose constructor does not compile.
C18_PositiveRateAndTaus ==
    (Constructed /\ lrt.args.cls # "PES") =>
        /\ lrt.obj.exc = "ok" =>
              /\ Positive(lrt.obj.attrs["learning_rate"])
              /\ \A t \in TauNames :
                    \/ lrt.obj.attrs[t] \in {Unset, PyNone}
                    \/ Positive(lrt.obj.attrs[t])
        /\ (\/ NotPositive(lrt.args.learning_rate)
            \/ NotPositive(lrt.args.pre_tau)
            \/ NotPositive(lrt.args.post_tau)
            \/ NotPositive(lrt.args.theta_tau)
            \/ NotPositive(lrt.args.integral_tau)) =>
              lrt.obj.exc = "ValidationError"

\* ------------------------------------------------------ claims on post_tau
\* The synapse whose output is the filtered post activity
PostSynapse == CHOOSE f \in synapses : f.output = "post_filtered"

\* C19: a BCM, Oja or InhVSG constructed with post_tau = None has post_tau
\* equal to its pre_tau, one constructed with a post_tau keeps it; the
\* builder of the class filters the post neurons' activity with
\* Lowpass(post_tau).
C19_PostTauDefaultsToPreTau ==
    (/\ Constructed
     /\ lrt.obj.exc = "ok"
     /\ lrt.obj.cls \in {"BCM", "Oja", "InhVSG"}) =>
        /\ lrt.obj.attrs["post_tau"] =
              IF lrt.args.post_tau = PyNone THEN lrt.args.pre_tau
              ELSE lrt.args.post_tau
        /\ phase = "type built" =>
              /\ \E f \in synapses : f.output = "post_filtered"
              /\ PostSynapse.input = "post_out"
              /\ PostSynapse.tau = lrt.obj.attrs["post_tau"].n
              /\ \E i \in DOMAIN ops :
                    /\ ops[i].type \in {"SimBCM", "SimOja", "SimInhVSG"}
                    /\ "post_filtered" \in ops[i].reads

C19_Witness ==
    /\ Constructed
    /\ lrt.obj.cls = "BCM"
    /\ lrt.args.post_tau = PyNone
    /\ lrt.obj.attrs["post_tau"] = PyNum(One)
    /\ phase = "type built"
    /\ PostSynapse.tau = One

\* ------------------------------------------------- claims on the Oja kernel
\* What SimOja found in its signals in the last step
OjaSeen ==
    seen[CHOOSE k \in DOMAIN seen : ops[seen[k].i].type = "SimOja"].at

\* alpha of step_simoja
OjaAlpha == RMul(rule.learning_rate, dt)

\* C20 as claimed: in every step SimOja leaves in delta
\* -beta * weights * (learning_rate*dt*post_filtered)^2, row by row, plus
\* outer(learning_rate*dt*post_filtered, pre_filtered), weights being what
\* the target holds in that step.
C20_OjaForgettingSquaresRate ==
    (Running /\ rule.kind = "Oja") =>
        \A e \in Entries(val["delta"]) :
            val["delta"][e[1]][e[2]] =
                RAdd(RMul(RMul(RNeg(rule.beta), OjaSeen["weights"][e[1]][e[2]]),
                          RMul(RMul(OjaAlpha, val["post_filtered"][e[1]]),
                               RMul(OjaAlpha, val["post_filtered"][e[1]]))),
                     RMul(RMul(OjaAlpha, val["post_filtered"][e[1]]),
                          val["pre_filtered"][e[2]]))

\* C20: in every step SimOja leaves in delta
\* -beta * weights * learning_rate*dt * post_filtered^2, row by row, plus
\* outer(learning_rate*dt*post_filtered, pre_filtered), weights being what
\* the target holds in that step; the delta of the step before does not
\* enter.
C20_OjaKernel ==
    (Running /\ rule.kind = "Oja") =>
        /\ OjaSeen["weights"] = val["weights"]
        /\ \A e \in Entries(val["delta"]) :
            val["delta"][e[1]][e[2]] =
                RAdd(RMul(RMul(RNeg(rule.beta), val["weights"][e[1]][e[2]]),
                          RMul(OjaAlpha,
                               RMul(val["post_filtered"][e[1]],
                                    val["post_filtered"][e[1]]))),
                     RMul(RMul(OjaAlpha, val["post_filtered"][e[1]]),
                          val["pre_filtered"][e[2]]))

C20_Witness ==
    /\ Running /\ rule.kind = "Oja"
    /\ step = 2
    /\ OjaAlpha # One
    /\ ~IsZeroM(prev["delta"])
    /\ ~IsZeroM(val["weights"])
    /\ val["post_filtered"] = Ramp(2)

\* ------------------------------------------------ claims on the Voja kernel
VojaOp == ops[CHOOSE i \in DOMAIN ops : ops[i].type = "SimVoja"]

\* scale * outer(post_filtered, pre_decoded)
\*   - post_filtered[:, np.newaxis] * scaled_encoders, entry (i, j), on the
\* signals as the step left them
VojaTerm(i, j) ==
    LET post == val[VojaOp.post_filtered]
    IN  RSub(RMul(EncoderScale([post_n |-> Len(post)])[i],
                  RMul(post[i], val["conn_out"][j])),
             RMul(post[i], val["encoders"][i][j]))

\* C21 as claimed: in every step SimVoja leaves in delta
\* learning_rate * learning_signal * (scale * outer(post_filtered,
\* pre_decoded) - post_filtered * scaled_encoders), the learning signal
\* being what rule['in'] holds in the step, 1 when nothing drives it.
C21_VojaKernelWithoutDt ==
    (Running /\ rule.kind = "Voja") =>
        /\ ~Driven => VojaLearningSignal = One
        /\ \A e \in Entries(val["delta"]) :
              val["delta"][e[1]][e[2]] =
                  RMul(RMul(rule.learning_rate, VojaLearningSignal),
                       VojaTerm(e[1], e[2]))

\* C21: in every step SimVoja leaves in delta
\* learning_rate * dt * learning_signal * (scale * outer(post_filtered,
\* pre_decoded) - post_filtered * scaled_encoders), the learning signal
\* being what rule['in'] holds in the step, 1 when nothing drives it, and
\* scaled_encoders the encoders as the step leaves them.
C21_VojaKernel ==
    (Running /\ rule.kind = "Voja") =>
        /\ ~Driven => VojaLearningSignal = One
        /\ VojaLearningSignal = val["learning"][1]
        /\ VojaOp.scaled_encoders = "encoders"
        /\ \A e \in Entries(val["delta"]) :
              val["delta"][e[1]][e[2]] =
                  RMul(RMul(RMul(rule.learning_rate, dt), VojaLearningSignal),
                       VojaTerm(e[1], e[2]))

C21_Witness ==
    /\ Running /\ rule.kind = "Voja"
    /\ step = 2
    /\ ~Driven
    /\ val[VojaOp.post_filtered] = Ramp(2)
    /\ val["conn_out"] = Ramp(2)
    /\ ~IsZeroM(val["encoders"])
    /\ ~IsZeroM(val["delta"])
    /\ val["delta"] # prev["delta"]

\* ------------------------------------------- claims on the order in a step
\* Place in the last step's run of the Delta Accumulation Operator, of the
\* rule's kernel and of the increment of delta
AccPos == CHOOSE k \in DOMAIN seen : seen[k].i = 1

KernelPos ==
    CHOOSE k \in DOMAIN seen :
        ops[seen[k].i].type \in {"SimBCM", "SimOja", "SimVoja", "SimInhVSG"}

IncDeltaPos ==
    CHOOSE k \in DOMAIN seen :
        ops[seen[k].i].type = "ElementwiseInc" /\ ops[seen[k].i].Y = "delta"

\* C22: BCM, Oja, Voja and InhVSG write delta as an update, so the Delta
\* Accumulation Operator runs before the kernel and adds the delta the
\* step before left: in step 1 that delta is zero and the target becomes
\* its decayed, clipped self; SimOja reads the weights the accumulation of
\* the same step left. PES and VoltageRule set and increment delta, so the
\* accumulation runs after the increment and adds the delta of the same
\* step.
C22_AccumulationOrder ==
    Running =>
        LET T == TargetSignal(rule)
            acc == seen[AccPos].at
            decay == RSub(One, rule.decay_rate_x_dt)
        IN  /\ rule.kind \in {"BCM", "Oja", "Voja", "InhVSG"} =>
                  /\ AccPos < KernelPos
                  /\ acc["delta"] = prev["delta"]
                  /\ step = 1 =>
                        /\ IsZeroM(acc["delta"])
                        /\ \A e \in Entries(val[T]) :
                              val[T][e[1]][e[2]] =
                                  ClipEntry(RMul(decay, acc[T][e[1]][e[2]]),
                                            rule.clipType)
                  /\ rule.kind = "Oja" => OjaSeen["weights"] = val["weights"]
            /\ rule.kind \in {"PES", "VoltageRule"} =>
                  /\ IncDeltaPos < AccPos
                  /\ acc["delta"] = val["delta"]

C22_Witness ==
    /\ Running /\ rule.kind = "Oja"
    /\ step = 2
    /\ ~IsZeroM(prev["delta"])
    /\ seen[AccPos].at["delta"] = prev["delta"]
    /\ val["delta"] # prev["delta"]
    /\ val["weights"] # seen[AccPos].at["weights"]

\* ------------------------------------- claims on two rules of a connection
\* C23: two rules of one connection that modify the same target each have
\* a Delta Accumulation Operator incrementing it, and after every step the
\* target is what either order of the two operators leaves, whatever their
\* clip policies and decay factors.
C23_AccumulationOrderIndependent ==
    (phase = "pair running" /\ step >= 1) =>
        /\ Len(ops) = 2
        /\ \A i \in {1, 2} :
              ops[i].type = "ElementwiseInc" /\ ops[i].incs = {"weights"}
        /\ ops[1].X # ops[2].X
        /\ Schedules(ops) = {<<1, 2>>, <<2, 1>>}
        /\ \A order \in Schedules(ops) :
              RunFrom(ops, order, 1, prev, <<>>).val["weights"] =
                  val["weights"]

\* ------------------------------------------- claims on encoder learning
\* C24: build_learning_rule of a rule that modifies 'encoders' on a
\* connection that is not decoded ends with ValueError and leaves the model
\* without operator and without signal. Stated for rule types that carry
\* the clipType attribute line 227 reads, so that the AttributeError of that
\* line is not what decides it.
C24_EncodersNeedDecoded ==
    (/\ RuleBuildEnded
     /\ rule.modifies = "encoders"
     /\ rule.has_clipType
     /\ ~rule.is_decoded) =>
        /\ phase = "failed"
        /\ status = "ValueError"
        /\ ops = <<>>
        /\ sig = {}
=============================================================================
